---- MODULE Spec2Model ----
(***************************************************************************)
(* Elevator simulation of src/model.py: a BuildingModel owning a SimPy     *)
(* environment (virtual clock + event heap), one SimPy process per         *)
(* ElevatorAgent (run), one rider-generation process (generate_riders),    *)
(* per-floor lobbies and the exited_riders collection.                     *)
(*                                                                         *)
(* Units.  Times are integers counting 1/30 s, lengths count 1/30 m, so    *)
(* that door_time = 10.6 s = 318 and one floor at 3.5 m / 3.0 m/s = 35 are *)
(* exact.  satisfaction counts 1/1800 (5.0 = 9000, wait_time/60.0 is then  *)
(* wait_time in ticks), comfort and perceived_quality count 1/1000.        *)
(*                                                                         *)
(* Every action below is one call of BuildingModel.step(): env.step() pops *)
(* one event of the heap and runs its callbacks (resuming at most one      *)
(* process until its next yield), then current_time is copied, then        *)
(* schedule.step() steps every agent.                                      *)
(***************************************************************************)
EXTENDS Integers, Sequences, FiniteSets, TLC

\* ------------------------------------------------------------- bounds
\* Riders the generation process creates in one run; the inter-arrival
\* drawn after the last of them is FarGap (later than every pending event).
MaxRiders == 2
\* Moves of one run that draw the reliability extra delay.
MaxExtra == 1

\* ------------------------------------------------------------- inputs
FloorCounts == {2, 3}          \* N_floors
ElevatorCounts == {1, 2}       \* N_elevators
Capacities == {1, 2}           \* capacity
Gaps == {0, 400, 2000}         \* np.random.exponential(rate), in ticks
ExtraDelays == {600}           \* random.uniform(10, 30), in ticks
GaussDraws == {-500, 2000}     \* random.gauss(0, 0.5), in 1/1000

\* ------------------------------------------------------------- program constants
DoorTime == 318                \* door_time = 10.6 s
FloorHeight == 105             \* floor_height = 3.5 m
Speed == 3                     \* speed = 3.0 m/s
Vibration == 1010              \* vibration = 1.01, in 1/1000
Noise == 55900                 \* noise = 55.9, in 1/1000
None == -1                     \* Python None of the unset timestamps
URGENT == 0                    \* simpy.core/events: priority of Initialize
NORMAL == 1                    \* simpy: priority of every other event
GEN == 0                       \* the generate_riders process (elevators are 1..N)

\* the lower ends of the parameter ranges the dashboard offers
MinFloors == 2
MinElevators == 1
MinCapacity == 8

VARIABLES
    N_floors,        \* BuildingModel.N_floors
    num_elevators,   \* BuildingModel.num_elevators
    capacity,        \* ElevatorAgent.capacity (the same for every elevator)
    now,             \* env.now
    current_time,    \* BuildingModel.current_time
    queue,           \* env._queue: set of events [time, prio, eid, kind, who, val]
    eid,             \* env._eid: the next event id
    riders,          \* sequence of RiderAgent records, in creation order
    lobby_waiting,   \* BuildingModel.lobby_waiting: floor -> sequence of rider ids
    exited_riders,   \* BuildingModel.exited_riders: sequence of rider ids
    elevators,       \* elevator id -> ElevatorAgent record (with its process position)
    steps,           \* schedule.steps: the calls of schedule.step(), one per step()
    model_vars,      \* datacollector.model_vars: the row collected last (none before the first step)
    extras,          \* history: number of extra delays drawn so far
    lastPop,         \* history: the event env.step() popped last and the heap it was popped from
    lastLoad,        \* history: the last Load step (elevator, floor, lobby/passengers before and after)
    lastUnload,      \* history: the last _unload call (elevator, floor, at a sweep stop?, riders it removed)
    cycle,           \* history: per elevator, its last Load (floor, riders aboard after it) and the stops made since
    arrivedIdle      \* history: riders created at floor 0 while the called elevator idled at floor 0 and nothing else was pending

vars == <<N_floors, num_elevators, capacity, now, current_time, queue, eid, riders,
          lobby_waiting, exited_riders, elevators, steps, model_vars, extras, lastPop,
          lastLoad, lastUnload, cycle, arrivedIdle>>

\* ------------------------------------------------------------- helpers
Min(a, b) == IF a <= b THEN a ELSE b
Max(a, b) == IF a >= b THEN a ELSE b
Abs(x) == IF x < 0 THEN -x ELSE x
SetMax(S) == CHOOSE x \in S : \A y \in S : y <= x
Range(s) == {s[i] : i \in 1..Len(s)}

\* max(1.0, min(5.0, x)) with the bounds given in the unit of x
Clamp(x, lo, hi) == Max(lo, Min(hi, x))

\* list.remove(x): drops the first occurrence of x
RECURSIVE Remove(_, _)
Remove(s, x) ==
    IF s = <<>> THEN <<>>
    ELSE IF Head(s) = x THEN Tail(s)
    ELSE <<Head(s)>> \o Remove(Tail(s), x)

\* s[:n] of a Python list: a negative n counts from the end
Prefix(s, n) ==
    IF n >= 0 THEN SubSeq(s, 1, Min(n, Len(s)))
    ELSE SubSeq(s, 1, Max(0, Len(s) + n))

\* faulty variant of Sorted: descending order
RECURSIVE SortedDescending(_)
SortedDescending(S) ==
    IF S = {} THEN <<>>
    ELSE LET x == CHOOSE y \in S : \A z \in S : y >= z
         IN <<x>> \o SortedDescending(S \ {x})

\* sorted(S) of a set of integers
RECURSIVE Sorted(_)
Sorted(S) ==
    IF S = {} THEN <<>>
    ELSE LET x == CHOOSE y \in S : \A z \in S : y <= z
         IN <<x>> \o Sorted(S \ {x})

\* The inter-arrival drawn after the last rider of the run
FarGap == 2 * MaxRiders * (SetMax(FloorCounts) * (FloorHeight \div Speed) + SetMax(ExtraDelays) + DoorTime)

\* ------------------------------------------------------------- SimPy environment
\* The operators below take and return a machine record
\*   m = [now, queue, eid, riders, lobby, exited, elevs]
\* so that one resumption of a process is a composition of them.

\* heap order of env._queue entries (time, priority, eid, event)
Before(a, b) ==
    \/ a.time < b.time
    \/ a.time = b.time /\ a.prio < b.prio
    \/ a.time = b.time /\ a.prio = b.prio /\ a.eid < b.eid

\* faulty variant of Earliest: among the events of the earliest time and
\* priority, the one scheduled last
EarliestLifo(q) ==
    CHOOSE a \in q : \A b \in q \ {a} :
        \/ a.time < b.time
        \/ a.time = b.time /\ a.prio < b.prio
        \/ a.time = b.time /\ a.prio = b.prio /\ a.eid > b.eid

\* heappop(env._queue): the entry env.step() processes
Earliest(q) == CHOOSE a \in q : \A b \in q \ {a} : Before(a, b)

\* env.schedule(event, priority, delay)
Schedule(m, delay, prio, kind, who, val) ==
    [m EXCEPT !.queue = @ \cup {[time |-> m.now + delay, prio |-> prio, eid |-> m.eid,
                                  kind |-> kind, who |-> who, val |-> val]},
              !.eid = @ + 1]

\* yield env.timeout(delay) of process who
Timeout(m, who, delay) == Schedule(m, delay, NORMAL, "timeout", who, 0)

\* yield self.request_store.get(): with an item in the store the StoreGet event
\* succeeds at once (scheduled at now), otherwise it waits in the get_queue
StoreGet(m, e) ==
    LET el == m.elevs[e] IN
    IF el.items # <<>>
    THEN Schedule([m EXCEPT !.elevs[e].items = Tail(@), !.elevs[e].pc = "get"],
                  0, NORMAL, "get", e, Head(el.items))
    ELSE [m EXCEPT !.elevs[e].getting = TRUE, !.elevs[e].pc = "get"]

\* ElevatorAgent.request: request_store.put(floor) appends the item (the store
\* is unbounded) and schedules the succeeded StorePut event at now
Request(m, e, floor) ==
    Schedule([m EXCEPT !.elevs[e].items = Append(@, floor)], 0, NORMAL, "put", e, 0)

\* the callback of a processed StorePut event (_trigger_get): a waiting
\* StoreGet takes the first item and is scheduled at now
TriggerGet(m, e) ==
    LET el == m.elevs[e] IN
    IF el.getting /\ el.items # <<>>
    THEN Schedule([m EXCEPT !.elevs[e].items = Tail(@), !.elevs[e].getting = FALSE],
                  0, NORMAL, "get", e, Head(el.items))
    ELSE m

\* ------------------------------------------------------------- RiderAgent
NewRider(origin, dest) ==
    [origin |-> origin, dest |-> dest, wait_start |-> None, wait_time |-> 0,
     travel_time |-> 0, journey_time |-> 0, enter_time |-> None, exit_time |-> None,
     satisfaction |-> 0, perceived_quality |-> 0, comfort |-> 0]

\* RiderAgent.step of rider i
RiderStep(m, i) ==
    IF m.riders[i].wait_start = None
    THEN [m EXCEPT !.riders[i].wait_start = m.now,
                   !.lobby[m.riders[i].origin] = Append(@, i)]
    ELSE m

\* schedule.step(): every agent's step (ElevatorAgent.step is pass)
RECURSIVE StepAgents(_, _)
StepAgents(m, i) ==
    IF i > Len(m.riders) THEN m ELSE StepAgents(RiderStep(m, i), i + 1)

ScheduleStep(m) == StepAgents(m, 1)

\* ------------------------------------------------------------- ElevatorAgent
\* faulty variant of MoveTime: the distance without abs()
MoveTimeSigned(floor, current_floor) ==
    ((floor - current_floor) * FloorHeight) \div Speed

\* t of move_to, before the reliability draw
MoveTime(floor, current_floor) ==
    (Abs(floor - current_floor) * FloorHeight) \div Speed

\* move_to up to its yield; extra is the delay drawn (0: none)
MoveTo(m, e, floor, extra) ==
    Timeout([m EXCEPT !.elevs[e].target = floor], e,
            MoveTime(floor, m.elevs[e].current_floor) + extra)

\* faulty variant of ExitRider: journey_time counted from enter_time
ExitRiderJourneyFromEnter(m, e, p) ==
    LET r == m.riders[p]
        wait == r.enter_time - r.wait_start
        base_sat == 9000 - wait
    IN [m EXCEPT !.riders[p] = [r EXCEPT !.exit_time = m.now,
                                         !.travel_time = m.now - r.enter_time,
                                         !.wait_time = wait,
                                         !.journey_time = m.now - r.enter_time,
                                         !.satisfaction = Clamp(base_sat, 1800, 9000),
                                         !.perceived_quality = r.comfort],
                 !.elevs[e].passengers = Remove(@, p),
                 !.exited = Append(@, p)]

\* faulty variant of ExitRider: the rider is not removed from passengers
ExitRiderStaysAboard(m, e, p) ==
    LET r == m.riders[p]
        wait == r.enter_time - r.wait_start
        base_sat == 9000 - wait
    IN [m EXCEPT !.riders[p] = [r EXCEPT !.exit_time = m.now,
                                         !.travel_time = m.now - r.enter_time,
                                         !.wait_time = wait,
                                         !.journey_time = m.now - r.wait_start,
                                         !.satisfaction = Clamp(base_sat, 1800, 9000),
                                         !.perceived_quality = r.comfort],
                 !.exited = Append(@, p)]

\* the body of _unload's loop for passenger p
ExitRider(m, e, p) ==
    LET r == m.riders[p]
        wait == r.enter_time - r.wait_start
        base_sat == 9000 - wait
    IN [m EXCEPT !.riders[p] = [r EXCEPT !.exit_time = m.now,
                                         !.travel_time = m.now - r.enter_time,
                                         !.wait_time = wait,
                                         !.journey_time = m.now - r.wait_start,
                                         !.satisfaction = Clamp(base_sat, 1800, 9000),
                                         !.perceived_quality = r.comfort],
                 !.elevs[e].passengers = Remove(@, p),
                 !.exited = Append(@, p)]

RECURSIVE ExitAll(_, _, _)
ExitAll(m, e, exiting) ==
    IF exiting = <<>> THEN m
    ELSE ExitAll(ExitRider(m, e, Head(exiting)), e, Tail(exiting))

\* faulty variant of Unload: only the first passenger bound for the floor exits
UnloadFirstOnly(m, e, floor) ==
    LET p == m.elevs[e].passengers
        exiting == SelectSeq(p, LAMBDA i : m.riders[i].dest = floor)
    IN ExitAll(m, e, Prefix(exiting, 1))

\* _unload(floor)
Unload(m, e, floor) ==
    LET p == m.elevs[e].passengers
        exiting == SelectSeq(p, LAMBDA i : m.riders[i].dest = floor)
    IN ExitAll(m, e, exiting)

\* faulty variant of ToLoad: every waiting rider, whatever the space
ToLoadAll(waiting, space) == waiting

\* faulty variant of ToLoad: the last riders of the lobby (waiting[-space:])
ToLoadLast(waiting, space) ==
    SubSeq(waiting, Max(1, Len(waiting) - space + 1), Len(waiting))

\* faulty variant of ToLoad: one place is kept free (waiting[:space - 1])
ToLoadOneLess(waiting, space) == Prefix(waiting, Max(0, space - 1))

\* waiting[:space] of the Load step
ToLoad(waiting, space) == Prefix(waiting, space)

\* faulty variant of BoardRider: the rider is not removed from the lobby
BoardRiderKeepLobby(m, e, floor, r) ==
    [m EXCEPT !.riders[r].enter_time = m.now,
              !.elevs[e].passengers = Append(@, r)]

\* faulty variant of BoardRider: the rider boards the first elevator
BoardRiderFirstCar(m, e, floor, r) ==
    [m EXCEPT !.riders[r].enter_time = m.now,
              !.elevs[1].passengers = Append(@, r),
              !.lobby[floor] = Remove(@, r)]

\* the body of the Load loop for rider r
BoardRider(m, e, floor, r) ==
    [m EXCEPT !.riders[r].enter_time = m.now,
              !.elevs[e].passengers = Append(@, r),
              !.lobby[floor] = Remove(@, r)]

RECURSIVE BoardAll(_, _, _, _)
BoardAll(m, e, floor, to_load) ==
    IF to_load = <<>> THEN m
    ELSE BoardAll(BoardRider(m, e, floor, Head(to_load)), e, floor, Tail(to_load))

\* the Load step of run
Load(m, e, floor) ==
    LET waiting == m.lobby[floor]
        space == capacity - Len(m.elevs[e].passengers)
    IN BoardAll(m, e, floor, ToLoad(waiting, space))

\* comfort of _update_comfort before the gauss draw, in 1/1000
BaseComfort(n) ==
    5000 - ((n * 3000) \div capacity) - ((Vibration * 3) \div 2) - (Noise \div 20)

\* faulty variant of ComfortOf: no clamp
ComfortUnclamped(c, draw) == c + draw

\* max(1.0, min(5.0, comfort + random.gauss(0, 0.5)))
ComfortOf(c, draw) == Clamp(c + draw, 1000, 5000)

RECURSIVE SetComfort(_, _, _, _)
SetComfort(m, ps, c, g) ==
    IF ps = <<>> THEN m
    ELSE SetComfort([m EXCEPT !.riders[Head(ps)].comfort = ComfortOf(c, g[Head(ps)])],
                    Tail(ps), c, g)

\* _update_comfort; g[p] is the gauss draw of passenger p
UpdateComfort(m, e, g) ==
    LET ps == m.elevs[e].passengers IN
    IF ps = <<>> THEN m
    ELSE SetComfort(m, ps, BaseComfort(Len(ps)), g)

\* faulty variant of Dests: every floor of the building
DestsEveryFloor(m, e) == Sorted(0..(N_floors - 1))

\* dests = sorted({p.dest for p in self.passengers})
Dests(m, e) == Sorted({m.riders[p].dest : p \in Range(m.elevs[e].passengers)})

\* the for loop over dests from its current position up to the next yield:
\* skips d == floor, starts the move to the next d, or falls out of the loop
\* to the top of while True (request_store.get())
RECURSIVE Sweep(_, _, _)
Sweep(m, e, extra) ==
    LET el == m.elevs[e] IN
    IF el.dests = <<>> THEN StoreGet(m, e)
    ELSE IF Head(el.dests) = el.floor
         THEN Sweep([m EXCEPT !.elevs[e].dests = Tail(@)], e, extra)
         ELSE MoveTo([m EXCEPT !.elevs[e].dests = Tail(@), !.elevs[e].pc = "sweep_move"],
                     e, Head(el.dests), extra)

\* does the loop over ds (after a stop at floor) start another move?
Moves(ds, floor) == \E k \in 1..Len(ds) : ds[k] # floor

\* ------------------------------------------------------------- construction
\* ElevatorAgent.__init__ (the process is started by BuildingModel.__init__ through it)
NewElevator ==
    [current_floor |-> 0, passengers |-> <<>>, items |-> <<>>, getting |-> FALSE,
     pc |-> "init", floor |-> None, target |-> None, dests |-> <<>>]

\* env.process(...): the Initialize event of the k-th process created
Initialize(k, who) ==
    [time |-> 0, prio |-> URGENT, eid |-> k, kind |-> "init", who |-> who, val |-> 0]

NoLoad ==
    [elevator |-> 0, floor |-> 0, waiting |-> <<>>, before |-> <<>>, lobby |-> <<>>, after |-> <<>>]

NoUnload == [elevator |-> 0, floor |-> 0, sweep |-> FALSE, removed |-> <<>>]

NoCycle == [floor |-> None, boarded |-> {}, stops |-> <<>>, loaded |-> {}]

\* BuildingModel.__init__ once its parameters are given
Constructed ==
    /\ now = 0
    /\ current_time = 0
    /\ lobby_waiting = [f \in 0..(N_floors - 1) |-> <<>>]
    /\ exited_riders = <<>>
    /\ elevators = [e \in 1..num_elevators |-> NewElevator]
    /\ riders = <<>>
    /\ queue = {Initialize(e - 1, e) : e \in 1..num_elevators} \cup {Initialize(num_elevators, GEN)}
    /\ eid = num_elevators + 1
    /\ steps = 0
    /\ model_vars = <<>>
    /\ extras = 0
    /\ lastPop = [ev |-> Initialize(0, 1), heap |-> {}]
    /\ lastLoad = NoLoad
    /\ lastUnload = NoUnload
    /\ cycle = [e \in 1..num_elevators |-> NoCycle]
    /\ arrivedIdle = {}

\* BuildingModel.__init__ with at least one elevator
Init ==
    /\ N_floors \in FloorCounts
    /\ num_elevators \in ElevatorCounts
    /\ capacity \in Capacities
    /\ Constructed

\* BuildingModel.__init__ also with N_elevators = 0, which it accepts
OpenInit ==
    /\ N_floors \in FloorCounts
    /\ num_elevators \in ElevatorCounts \cup {0}
    /\ capacity \in Capacities
    /\ Constructed

\* ------------------------------------------------------------- BuildingModel.step
\* the machine right after env.step() popped ev and set the clock
Popped(ev) ==
    [now |-> ev.time, queue |-> queue \ {ev}, eid |-> eid, riders |-> riders,
     lobby |-> lobby_waiting, exited |-> exited_riders, elevs |-> elevators]

\* ------------------------------------------------------------- DataCollector
\* A reported value is the rational num/den; the reporters' constant 0 is 0/1.
Zero == [num |-> 0, den |-> 1]

RECURSIVE SeqSum(_)
SeqSum(s) == IF s = <<>> THEN 0 ELSE Head(s) + SeqSum(Tail(s))

\* faulty variant of Mean: the sum of the values
MeanAsSum(vals) == [num |-> SeqSum(vals), den |-> 1]

\* np.mean(vals) of a non-empty list
Mean(vals) == [num |-> SeqSum(vals), den |-> Len(vals)]

\* the three reporters over exited_riders: np.mean([...]) if m.exited_riders else 0
AvgWaitTime(m) ==
    IF m.exited # <<>>
    THEN Mean([k \in 1..Len(m.exited) |-> m.riders[m.exited[k]].wait_time])
    ELSE Zero

AvgJourneyTime(m) ==
    IF m.exited # <<>>
    THEN Mean([k \in 1..Len(m.exited) |-> m.riders[m.exited[k]].journey_time])
    ELSE Zero

AvgSatisfaction(m) ==
    IF m.exited # <<>>
    THEN Mean([k \in 1..Len(m.exited) |-> m.riders[m.exited[k]].satisfaction])
    ELSE Zero

\* the elevators among schedule.agents, in the order they were added
ElevatorList(m) == [k \in 1..num_elevators |-> k]

\* np.mean of len(e.passengers) / e.capacity over a non-empty list of
\* elevators: every term has the denominator capacity
MeanCrowding(m, es) ==
    [num |-> SeqSum([k \in 1..Len(es) |-> Len(m.elevs[es[k]].passengers)]),
     den |-> capacity * Len(es)]

\* faulty variant of Crowding: no guard for an empty list of elevators
CrowdingUnguarded(m) == MeanCrowding(m, ElevatorList(m))

\* the Crowding reporter
Crowding(m) ==
    IF ElevatorList(m) # <<>> THEN MeanCrowding(m, ElevatorList(m)) ELSE Zero

\* datacollector.collect(self): the row of model reporters
Collect(m) ==
    [Avg_Wait_Time |-> AvgWaitTime(m), Avg_Journey_Time |-> AvgJourneyTime(m),
     Avg_Satisfaction |-> AvgSatisfaction(m), Crowding |-> Crowding(m)]

\* the rest of step() once the resumed process has yielded, leaving machine m
Finish(m, ev) ==
    LET f == ScheduleStep(m) IN
    /\ now' = f.now
    /\ current_time' = f.now
    /\ queue' = f.queue
    /\ eid' = f.eid
    /\ riders' = f.riders
    /\ lobby_waiting' = f.lobby
    /\ exited_riders' = f.exited
    /\ elevators' = f.elevs
    /\ steps' = steps + 1
    /\ model_vars' = <<Collect(f)>>
    /\ lastPop' = [ev |-> ev, heap |-> queue]
    /\ UNCHANGED <<N_floors, num_elevators, capacity>>

\* random.random() > self.reliability: the delays a move may draw (0: none)
ExtraChoices == {0} \cup (IF extras < MaxExtra THEN ExtraDelays ELSE {})

Drawn(extra) == IF extra > 0 THEN extras + 1 ELSE extras

\* np.random.exponential(rate) of the loop iteration after n riders were created
NextGaps(n) == IF n >= MaxRiders THEN {FarGap} ELSE Gaps

\* is elevator e blocked in request_store.get() at floor 0 with nothing to do?
Idle(m, e) ==
    /\ m.elevs[e].pc = "get"
    /\ m.elevs[e].getting
    /\ m.elevs[e].items = <<>>
    /\ m.elevs[e].current_floor = 0
    /\ \A x \in m.queue : x.who # e

\* the passengers of elevator e in machine a that are no longer aboard in b
Removed(a, b, e) ==
    SelectSeq(a.elevs[e].passengers, LAMBDA i : i \notin Range(b.elevs[e].passengers))

\* step() processing the Initialize event of an elevator's run(): runs to
\* the first request_store.get()
ElevatorStart ==
    /\ queue # {}
    /\ LET ev == Earliest(queue) IN
       /\ ev.kind = "init" /\ ev.who # GEN
       /\ Finish(StoreGet(Popped(ev), ev.who), ev)
    /\ UNCHANGED <<extras, lastLoad, lastUnload, cycle, arrivedIdle>>

\* step() processing the Initialize event of generate_riders(): runs to the
\* first timeout
GeneratorStart ==
    /\ queue # {}
    /\ LET ev == Earliest(queue) IN
       /\ ev.kind = "init" /\ ev.who = GEN
       /\ \E gap \in NextGaps(0) : Finish(Timeout(Popped(ev), GEN, gap), ev)
    /\ UNCHANGED <<extras, lastLoad, lastUnload, cycle, arrivedIdle>>

\* the elevators generate_riders chooses from
ElevatorIds == 1..num_elevators

\* random.choice(elevators) where there are elevators (0: no elevator, no call)
CalledElevators == IF ElevatorIds # {} THEN ElevatorIds ELSE {0}

\* faulty variant of Arrival: no elevator is called
ArrivalNoCall(m, origin, dest, e, gap) ==
    LET id == Len(m.riders) + 1
        m1 == [m EXCEPT !.riders = Append(@, NewRider(origin, dest))]
    IN Timeout(RiderStep(m1, id), GEN, gap)

\* faulty variant of Arrival: the loop ends after the rider (no next timeout)
ArrivalOnce(m, origin, dest, e, gap) ==
    LET id == Len(m.riders) + 1
        m1 == [m EXCEPT !.riders = Append(@, NewRider(origin, dest))]
    IN Request(RiderStep(m1, id), e, origin)

\* one iteration of generate_riders after its timeout: create the rider, step it,
\* call a random elevator, draw the next inter-arrival
Arrival(m, origin, dest, e, gap) ==
    LET id == Len(m.riders) + 1
        m1 == [m EXCEPT !.riders = Append(@, NewRider(origin, dest))]
        m2 == RiderStep(m1, id)
        m3 == IF ElevatorIds # {} THEN Request(m2, e, origin) ELSE m2
    IN Timeout(m3, GEN, gap)

\* step() processing the timeout of generate_riders()
RiderArrives ==
    /\ queue # {}
    /\ Len(riders) < MaxRiders
    /\ LET ev == Earliest(queue) IN
       /\ ev.kind = "timeout" /\ ev.who = GEN
       /\ \E origin \in 0..(N_floors - 1), e \in CalledElevators :
            \E dest \in (0..(N_floors - 1)) \ {origin}, gap \in NextGaps(Len(riders) + 1) :
               /\ Finish(Arrival(Popped(ev), origin, dest, e, gap), ev)
               /\ arrivedIdle' = IF origin = 0 /\ e \in ElevatorIds /\ Idle(Popped(ev), e)
                                 THEN arrivedIdle \cup {Len(riders) + 1}
                                 ELSE arrivedIdle
    /\ UNCHANGED <<extras, lastLoad, lastUnload, cycle>>

\* step() processing a StorePut event: its callback hands the item to a waiting get
PutDone ==
    /\ queue # {}
    /\ LET ev == Earliest(queue) IN
       /\ ev.kind = "put"
       /\ Finish(TriggerGet(Popped(ev), ev.who), ev)
    /\ UNCHANGED <<extras, lastLoad, lastUnload, cycle, arrivedIdle>>

\* step() processing a StoreGet event: run() receives floor and starts move_to(floor)
RequestTaken ==
    /\ queue # {}
    /\ LET ev == Earliest(queue)
           e == ev.who
       IN /\ ev.kind = "get"
          /\ \E extra \in ExtraChoices :
               /\ Finish(MoveTo([Popped(ev) EXCEPT !.elevs[e].floor = ev.val,
                                                   !.elevs[e].pc = "move"],
                                e, ev.val, extra), ev)
               /\ extras' = Drawn(extra)
    /\ UNCHANGED <<lastLoad, lastUnload, cycle, arrivedIdle>>

\* faulty variant of EndMove: the door timeout is missing
EndMoveNoDoor(m, e, pc) ==
    Timeout([m EXCEPT !.elevs[e].current_floor = m.elevs[e].target,
                      !.elevs[e].pc = pc], e, 0)

\* the end of move_to and the door timeout that follows it
EndMove(m, e, pc) ==
    Timeout([m EXCEPT !.elevs[e].current_floor = m.elevs[e].target,
                      !.elevs[e].pc = pc], e, DoorTime)

\* step() processing the timeout of move_to(floor)
Arrived ==
    /\ queue # {}
    /\ LET ev == Earliest(queue) IN
       /\ ev.kind = "timeout" /\ ev.who # GEN
       /\ elevators[ev.who].pc = "move"
       /\ Finish(EndMove(Popped(ev), ev.who, "door"), ev)
    /\ UNCHANGED <<extras, lastLoad, lastUnload, cycle, arrivedIdle>>

\* run() from the door timeout at the requested floor to the next yield
UnloadLoad(m, e) == Load(Unload(m, e, m.elevs[e].floor), e, m.elevs[e].floor)

AfterLoad(m, e, g, extra) ==
    LET m3 == UpdateComfort(m, e, g)
    IN Sweep([m3 EXCEPT !.elevs[e].dests = Dests(m3, e)], e, extra)

\* step() processing the door timeout at the requested floor
DoorOpened ==
    /\ queue # {}
    /\ LET ev == Earliest(queue)
           e == ev.who
       IN /\ ev.kind = "timeout" /\ e # GEN
          /\ elevators[e].pc = "door"
          /\ LET m0 == Popped(ev)
                 m1 == Unload(m0, e, m0.elevs[e].floor)
                 m2 == UnloadLoad(m0, e)
             IN \E g \in [Range(m2.elevs[e].passengers) -> GaussDraws] :
                \E extra \in (IF Moves(Dests(m2, e), m2.elevs[e].floor) THEN ExtraChoices ELSE {0}) :
                   /\ Finish(AfterLoad(m2, e, g, extra), ev)
                   /\ extras' = Drawn(extra)
                   /\ lastLoad' = [elevator |-> e, floor |-> m0.elevs[e].floor,
                                   waiting |-> m1.lobby[m0.elevs[e].floor],
                                   before |-> m1.elevs[e].passengers,
                                   lobby |-> m2.lobby[m0.elevs[e].floor],
                                   after |-> m2.elevs[e].passengers]
                   /\ lastUnload' = [elevator |-> e, floor |-> m0.elevs[e].floor,
                                     sweep |-> FALSE,
                                     removed |-> Removed(m0, m1, e)]
                   /\ cycle' = [cycle EXCEPT ![e] =
                                   [floor |-> m0.elevs[e].floor,
                                    boarded |-> Range(m2.elevs[e].passengers),
                                    stops |-> <<>>, loaded |-> {}]]
    /\ UNCHANGED arrivedIdle

\* step() processing the timeout of move_to(d) of the sweep
SweepArrived ==
    /\ queue # {}
    /\ LET ev == Earliest(queue) IN
       /\ ev.kind = "timeout" /\ ev.who # GEN
       /\ elevators[ev.who].pc = "sweep_move"
       /\ Finish(EndMove(Popped(ev), ev.who, "sweep_door"), ev)
    /\ UNCHANGED <<extras, lastLoad, lastUnload, cycle, arrivedIdle>>

\* run() from the door timeout at a sweep stop to the next yield
AfterSweepDoor(m, e, g, extra) ==
    Sweep(UpdateComfort(m, e, g), e, extra)

\* step() processing the door timeout at sweep stop d
SweepDoorOpened ==
    /\ queue # {}
    /\ LET ev == Earliest(queue)
           e == ev.who
       IN /\ ev.kind = "timeout" /\ e # GEN
          /\ elevators[e].pc = "sweep_door"
          /\ LET m0 == Popped(ev)
                 m1 == Unload(m0, e, elevators[e].target)
             IN \E g \in [Range(m1.elevs[e].passengers) -> GaussDraws] :
                \E extra \in (IF Moves(m1.elevs[e].dests, m1.elevs[e].floor) THEN ExtraChoices ELSE {0}) :
                   LET m2 == AfterSweepDoor(m1, e, g, extra) IN
                   /\ Finish(m2, ev)
                   /\ extras' = Drawn(extra)
                   /\ lastUnload' = [elevator |-> e, floor |-> elevators[e].target,
                                     sweep |-> TRUE,
                                     removed |-> Removed(m0, m1, e)]
                   /\ cycle' = [cycle EXCEPT
                                   ![e].stops = Append(@, elevators[e].current_floor),
                                   ![e].loaded = @ \cup (Range(m2.elevs[e].passengers)
                                                           \ Range(m0.elevs[e].passengers))]
    /\ UNCHANGED <<lastLoad, arrivedIdle>>

Next ==
    \/ ElevatorStart
    \/ GeneratorStart
    \/ RiderArrives
    \/ PutDone
    \/ RequestTaken
    \/ Arrived
    \/ DoorOpened
    \/ SweepArrived
    \/ SweepDoorOpened

Spec == Init /\ [][Next]_vars

\* the simulation for every accepted number of elevators, none included
OpenSpec == OpenInit /\ [][Next]_vars

\* step() can be called: the heap holds an event, and it is not the arrival of
\* a rider beyond the run's MaxRiders
CanStep ==
    /\ queue # {}
    /\ LET ev == Earliest(queue) IN
       ~(ev.kind = "timeout" /\ ev.who = GEN /\ Len(riders) >= MaxRiders)

\* a call of step(), seen through schedule.steps alone: every action of Next
\* is one (it requires CanStep and counts steps), and where CanStep holds one
\* of them is enabled (NoStepLost below)
StepCalled == CanStep /\ steps' = steps + 1

\* "step() keeps being called": a step is taken whenever one is possible
LiveSpec == Init /\ [][Next]_vars /\ WF_steps(StepCalled)

\* where CanStep holds, the earliest event is one that an action of Next
\* processes: the resumption of a process at the yield it is suspended at
NoStepLost ==
    CanStep =>
        LET ev == Earliest(queue) IN
        \/ ev.kind \in {"init", "put"}
        \/ ev.kind = "get" /\ elevators[ev.who].pc = "get"
        \/ ev.kind = "timeout" /\ ev.who = GEN
        \/ /\ ev.kind = "timeout" /\ ev.who # GEN
           /\ elevators[ev.who].pc \in {"move", "door", "sweep_move", "sweep_door"}

\* every step of Next is a StepCalled step
StepsCounted == [][StepCalled]_vars

\* ------------------------------------------------------------- properties
RiderIds == 1..Len(riders)
Exited == Range(exited_riders)

\* the sum of f[x] over the x of a finite set
RECURSIVE SetSum(_, _)
SetSum(S, f) ==
    IF S = {} THEN 0
    ELSE LET x == CHOOSE y \in S : TRUE IN f[x] + SetSum(S \ {x}, f)

\* C1: in every reachable state no elevator holds more passengers than its
\* capacity.
CapacityRespected ==
    \A e \in DOMAIN elevators : Len(elevators[e].passengers) <= capacity

\* a Load step filled the elevator and left a rider behind in the lobby
FullLoadReached ==
    /\ lastLoad.elevator # 0
    /\ Len(lastLoad.after) = capacity
    /\ lastLoad.lobby # <<>>
    /\ elevators[lastLoad.elevator].passengers = lastLoad.after

\* the places rider i is in: positions of lobby lists, of passenger lists, of
\* exited_riders
Places(i) ==
    UNION {{<<"lobby", f, k>> : k \in {j \in 1..Len(lobby_waiting[f]) : lobby_waiting[f][j] = i}}
           : f \in DOMAIN lobby_waiting}
    \cup UNION {{<<"elevator", e, k>> : k \in {j \in 1..Len(elevators[e].passengers) :
                                                 elevators[e].passengers[j] = i}}
                : e \in DOMAIN elevators}
    \cup {<<"exited", 0, k>> : k \in {j \in 1..Len(exited_riders) : exited_riders[j] = i}}

\* C2: every rider is in at most one place (a lobby, one elevator's
\* passengers, exited_riders), and at most once there.
OnePlace == \A i \in RiderIds : Cardinality(Places(i)) <= 1

\* two elevators loaded at the same floor at the same virtual time, one rider each
SameTimeLoads ==
    /\ Len(riders) = 2
    /\ riders[1].origin = riders[2].origin
    /\ riders[1].enter_time # None
    /\ riders[1].enter_time = riders[2].enter_time
    /\ \E a, b \in DOMAIN elevators :
         /\ a # b
         /\ 1 \in Range(elevators[a].passengers)
         /\ 2 \in Range(elevators[b].passengers)

\* C3: every rider that is created is eventually in exited_riders (checked
\* under LiveSpec).
EveryRiderExits ==
    \A i \in 1..MaxRiders : (Len(riders) >= i) ~> (i \in Exited)

\* rider 2 waited in the lobby while a full elevator took rider 1 from the
\* same floor, and has exited all the same
LeftBehindExited ==
    /\ capacity = 1
    /\ Len(riders) = 2
    /\ 2 \in Exited
    /\ riders[1].origin = riders[2].origin
    /\ riders[2].wait_start <= riders[1].enter_time
    /\ riders[1].enter_time < riders[2].enter_time

\* C4: wait_start <= enter_time <= exit_time once set, and for every exited
\* rider wait_time + travel_time = journey_time with
\* wait_time = enter_time - wait_start and travel_time = exit_time - enter_time.
TimesConsistent ==
    \A i \in RiderIds :
        LET r == riders[i] IN
        /\ r.enter_time # None => (r.wait_start # None /\ r.wait_start <= r.enter_time)
        /\ r.exit_time # None => (r.enter_time # None /\ r.enter_time <= r.exit_time)
        /\ i \in Exited =>
             /\ r.exit_time # None
             /\ r.wait_time = r.enter_time - r.wait_start
             /\ r.travel_time = r.exit_time - r.enter_time
             /\ r.wait_time + r.travel_time = r.journey_time

\* an exited rider that waited longer than one door cycle and travelled
ExitedAfterWait ==
    \E i \in Exited :
        /\ riders[i].wait_time > DoorTime
        /\ riders[i].travel_time > 0
        /\ riders[i].wait_start > 0

\* C5: the clock is non-negative, current_time is its copy, and no step
\* decreases it.
ClockMonotone ==
    /\ [](now >= 0 /\ current_time = now)
    /\ [][now' >= now /\ current_time' >= current_time]_vars

\* the clock has advanced through an elevator's event after a rider arrived
ClockAdvanced ==
    /\ now > 0
    /\ lastPop.ev.who # GEN
    /\ lastPop.ev.kind = "timeout"
    /\ Len(riders) = 2

\* C6: the event a step processes is the earliest of the heap, and among the
\* events of that time the one scheduled first (smallest event id).
FifoTieBreak ==
    lastPop.heap # {} =>
        /\ lastPop.ev \in lastPop.heap
        /\ \A x \in lastPop.heap :
              \/ x.time > lastPop.ev.time
              \/ x.time = lastPop.ev.time /\ x.eid >= lastPop.ev.eid

\* the resumptions of two different processes were pending for the same time
TieResolved ==
    \E x \in lastPop.heap :
        /\ x.time = lastPop.ev.time
        /\ x.who # lastPop.ev.who
        /\ x.kind \in {"timeout", "get"}
        /\ lastPop.ev.kind \in {"timeout", "get"}
        /\ now > 0

\* C7: the heap is never empty: the generation process always has a pending
\* resumption (its Initialize event, then a timeout).
QueueNeverEmpty ==
    /\ queue # {}
    /\ \E x \in queue : x.who = GEN /\ x.kind \in {"init", "timeout"}

\* every rider has exited and only the generation process keeps the heap non-empty
OnlyGeneratorPending ==
    /\ Len(riders) = MaxRiders
    /\ Exited = RiderIds
    /\ Cardinality(queue) = 1

\* C8: a Load step boards exactly the first min(capacity - len(passengers),
\* len(lobby)) riders of the lobby in order; the others stay, in order.
LoadTakesPrefix ==
    lastLoad.elevator # 0 =>
        LET n == Min(capacity - Len(lastLoad.before), Len(lastLoad.waiting)) IN
        /\ n >= 0
        /\ lastLoad.after = lastLoad.before \o SubSeq(lastLoad.waiting, 1, n)
        /\ lastLoad.lobby = SubSeq(lastLoad.waiting, n + 1, Len(lastLoad.waiting))

\* capacity 1, two riders waiting at the floor: the first boarded, the second stayed
SecondStays ==
    /\ capacity = 1
    /\ lastLoad.elevator # 0
    /\ Len(lastLoad.waiting) = 2
    /\ lastLoad.after = <<lastLoad.waiting[1]>>
    /\ lastLoad.lobby = <<lastLoad.waiting[2]>>

\* C9: every exited rider has satisfaction in [1, 5] and perceived_quality in
\* [1, 5] (so not the initial comfort 0).
ScoresInRange ==
    \A i \in Exited :
        /\ riders[i].satisfaction >= 1800 /\ riders[i].satisfaction <= 9000
        /\ riders[i].perceived_quality >= 1000 /\ riders[i].perceived_quality <= 5000

\* an exited rider whose scores are strictly inside the range, and one at the clamp
ScoresInside ==
    /\ \E i \in Exited :
         /\ riders[i].satisfaction > 1800 /\ riders[i].satisfaction < 9000
         /\ riders[i].perceived_quality > 1000 /\ riders[i].perceived_quality < 5000
    /\ \E i \in Exited : riders[i].perceived_quality = 1000

\* the riders of the scenario: 2 floors, 1 elevator of capacity 1 idle at
\* floor 0 when the rider appears at floor 0 for floor 1, no extra delay drawn
ScenarioRiders ==
    {i \in Exited : /\ N_floors = 2 /\ num_elevators = 1 /\ capacity = 1
                    /\ extras = 0
                    /\ i \in arrivedIdle
                    /\ riders[i].origin = 0 /\ riders[i].dest = 1}

\* C10 as stated: the scenario's rider completes with wait_time 0 and
\* journey_time 1.167 s + 10.6 s.
ScenarioAsStated ==
    \A i \in ScenarioRiders :
        /\ riders[i].wait_time = 0
        /\ riders[i].journey_time = MoveTime(1, 0) + DoorTime

\* C10: the scenario's rider completes with wait_time = door_time (the door
\* cycle before loading) and journey_time = 1.167 s + 2 x 10.6 s.
ScenarioTimes ==
    \A i \in ScenarioRiders :
        /\ riders[i].wait_time = DoorTime
        /\ riders[i].travel_time = MoveTime(1, 0) + DoorTime
        /\ riders[i].journey_time = MoveTime(1, 0) + 2 * DoorTime

\* the scenario happened, also for a rider that was not the first of the run
ScenarioReached ==
    \E i \in ScenarioRiders : i = 2 /\ riders[i].wait_start > 0

\* the mean of field F over the set of exited riders, as the rational num/den
ExitedMean(f) == [num |-> SetSum(Exited, f), den |-> Cardinality(Exited)]

WaitTimeOf == [i \in RiderIds |-> riders[i].wait_time]
JourneyTimeOf == [i \in RiderIds |-> riders[i].journey_time]
SatisfactionOf == [i \in RiderIds |-> riders[i].satisfaction]
PassengersOf == [e \in DOMAIN elevators |-> Len(elevators[e].passengers)]

\* C11 (under OpenSpec): the row recorded by step() has the three Avg_ values
\* 0 while exited_riders is empty and the mean over the exited riders
\* otherwise, and Crowding 0 without elevators and the mean of
\* len(passengers)/capacity over the elevators otherwise.
MetricsDefined ==
    steps > 0 =>
        LET row == model_vars[1] IN
        /\ Len(model_vars) = 1
        /\ Exited = {} =>
             /\ row.Avg_Wait_Time = Zero
             /\ row.Avg_Journey_Time = Zero
             /\ row.Avg_Satisfaction = Zero
        /\ Exited # {} =>
             /\ row.Avg_Wait_Time = ExitedMean(WaitTimeOf)
             /\ row.Avg_Journey_Time = ExitedMean(JourneyTimeOf)
             /\ row.Avg_Satisfaction = ExitedMean(SatisfactionOf)
        /\ num_elevators = 0 => row.Crowding = Zero
        /\ num_elevators > 0 =>
             row.Crowding = [num |-> SetSum(DOMAIN elevators, PassengersOf),
                             den |-> capacity * num_elevators]

\* a row collected without elevators, after riders arrived that never leave
RowWithoutElevators ==
    /\ num_elevators = 0
    /\ steps > 0
    /\ Len(riders) = MaxRiders
    /\ model_vars[1].Crowding = Zero
    /\ model_vars[1].Avg_Wait_Time = Zero

\* C12 as stated: after every step() the recorded Avg_Satisfaction is within
\* [1, 5].
AvgSatisfactionInRange ==
    steps > 0 =>
        LET a == model_vars[1].Avg_Satisfaction IN
        /\ 1800 * a.den <= a.num
        /\ a.num <= 9000 * a.den

\* C12: after every step() the recorded Avg_Satisfaction is 0 while no rider
\* has exited and within [1, 5] once one has; every recorded value is
\* non-negative.
AvgSatisfactionZeroOrInRange ==
    steps > 0 =>
        LET row == model_vars[1]
            a == row.Avg_Satisfaction
        IN /\ Exited = {} => a = Zero
           /\ Exited # {} => (1800 * a.den <= a.num /\ a.num <= 9000 * a.den)
           /\ \A v \in {row.Avg_Wait_Time, row.Avg_Journey_Time, row.Avg_Satisfaction,
                        row.Crowding} : v.num >= 0 /\ v.den > 0

\* a row with the mean satisfaction of two exited riders, strictly inside [1, 5]
AvgOfTwoReached ==
    /\ Len(exited_riders) = 2
    /\ model_vars[1].Avg_Satisfaction.den = 2
    /\ model_vars[1].Avg_Satisfaction.num < 9000 * 2
    /\ riders[1].satisfaction # riders[2].satisfaction

\* a parameter below the range the dashboard offers
OutOfRange ==
    \/ N_floors < MinFloors
    \/ num_elevators < MinElevators
    \/ capacity < MinCapacity

\* C14 as stated (under OpenSpec): a simulation constructed with a parameter
\* outside its valid range cannot be stepped: construction is refused.
ConstructionRefused == OutOfRange => (steps = 0 /\ ~CanStep)

\* C15 as stated: every _unload executed by run(), at the requested floor and
\* at sweep stops, removes at least one passenger.
UnloadNeverEmpty == lastUnload.elevator # 0 => lastUnload.removed # <<>>

\* C15: every _unload at a sweep stop removes at least one passenger, all of
\* them bound for that floor; the _unload at the requested floor removes none.
UnloadEmptyOnlyAtRequest ==
    lastUnload.elevator # 0 =>
        /\ lastUnload.sweep => lastUnload.removed # <<>>
        /\ ~lastUnload.sweep => lastUnload.removed = <<>>
        /\ \A p \in Range(lastUnload.removed) :
              riders[p].dest = lastUnload.floor /\ p \in Exited

\* a sweep stop that unloaded two passengers at once
TwoUnloadedAtStop == lastUnload.sweep /\ Len(lastUnload.removed) = 2

\* the process the step resumed whose popped event is ev: the process waiting
\* on it; a StorePut event resumes none (generate_riders never yields it)
Resumed(ev) == IF ev.kind = "put" THEN None ELSE ev.who

PassengersChanged(e) == elevators'[e].passengers # elevators[e].passengers
ItemsChanged(e) == elevators'[e].items # elevators[e].items

\* C16 as stated: an elevator's passengers and request queue change only in
\* steps that resume that elevator's own process.
OnlyOwnProcess ==
    [][\A e \in DOMAIN elevators :
          (PassengersChanged(e) \/ ItemsChanged(e)) => Resumed(lastPop'.ev) = e]_vars

\* C16: an elevator's passengers change only in steps that resume its own
\* process; its request queue gains a floor only in a step that resumes the
\* rider-generation process and loses its first floor only in a step that
\* processes its own put event or resumes its own process; no step resuming
\* another elevator's process changes either.
OwnProcessOrRequest ==
    [][\A e \in DOMAIN elevators :
          /\ PassengersChanged(e) => Resumed(lastPop'.ev) = e
          /\ ItemsChanged(e) =>
               \/ /\ Resumed(lastPop'.ev) = GEN
                  /\ \E f \in 0..(N_floors - 1) :
                        elevators'[e].items = Append(elevators[e].items, f)
               \/ /\ lastPop'.ev.who = e
                  /\ elevators[e].items # <<>>
                  /\ elevators'[e].items = Tail(elevators[e].items)]_vars

\* a step of the generator has put a request into the queue of one of two
\* elevators while the other one carries a passenger
RequestWhileOtherCarries ==
    /\ num_elevators = 2
    /\ lastPop.ev.who = GEN /\ lastPop.ev.kind = "timeout"
    /\ \E e, o \in DOMAIN elevators :
          /\ e # o
          /\ elevators[e].items # <<>>
          /\ elevators[o].passengers # <<>>

\* the destinations, other than the floor of the Load, of the riders aboard
\* after the Load of elevator e's last cycle
SweepFloors(e) == {riders[p].dest : p \in cycle[e].boarded} \ {cycle[e].floor}

\* C17: after the Load at floor f the stops of the elevator are floors of
\* SweepFloors in strictly ascending order (so each once), all of them by the
\* time it waits for a request again, and nobody boards at a sweep stop.
SweepStopsAscending ==
    \A e \in DOMAIN elevators :
        LET c == cycle[e] IN
        c.floor # None =>
            /\ \A i, j \in 1..Len(c.stops) : i < j => c.stops[i] < c.stops[j]
            /\ Range(c.stops) \subseteq SweepFloors(e)
            /\ elevators[e].pc \in {"get", "move", "door"} => Range(c.stops) = SweepFloors(e)
            /\ elevators[e].pc \in {"sweep_move", "sweep_door"} => Range(c.stops) # SweepFloors(e)
            /\ c.loaded = {}
            /\ Range(elevators[e].passengers) \subseteq c.boarded

\* loaded at floor 1, the elevator went down to floor 0 and then up to floor 2
DownThenUp ==
    \E e \in DOMAIN elevators :
        /\ cycle[e].floor = 1
        /\ cycle[e].stops = <<0, 2>>

\* a sweep stop at a floor where a rider was waiting, who stayed in the lobby
StopPassedWaiting ==
    /\ lastUnload.sweep
    /\ lobby_waiting[lastUnload.floor] # <<>>
    /\ lastPop.ev.who = lastUnload.elevator
    /\ elevators[lastUnload.elevator].pc = "get"

\* C18: a rider in exited_riders keeps every field in every later step, stays
\* in exited_riders exactly once (it is not unloaded again) and is aboard no
\* elevator.
CompletedFrozen ==
    [][\A i \in Exited :
          /\ riders'[i] = riders[i]
          /\ Len(exited_riders) <= Len(exited_riders')
          /\ SubSeq(exited_riders', 1, Len(exited_riders)) = exited_riders
          /\ Cardinality({k \in 1..Len(exited_riders') : exited_riders'[k] = i}) = 1
          /\ \A e \in DOMAIN elevators : i \notin Range(elevators'[e].passengers)]_vars

\* a second rider exited at a later time than the first, whose fields were set
\* at its own exit
LaterExitAfterFirst ==
    /\ Len(exited_riders) = 2
    /\ riders[exited_riders[1]].exit_time < riders[exited_riders[2]].exit_time
    /\ riders[exited_riders[1]].exit_time < riders[exited_riders[2]].enter_time

\* C19: an elevator that has not started, waits for a request, moves to the
\* requested floor or waits for the door there has no passengers; when it
\* waits for a request every rider of its last cycle has exited; at every
\* Load the passengers list is empty after the Unload, so the free space is
\* the capacity.
EmptyBetweenCycles ==
    /\ \A e \in DOMAIN elevators :
          /\ elevators[e].pc \in {"init", "get", "move", "door"} =>
                elevators[e].passengers = <<>>
          /\ elevators[e].pc = "get" => cycle[e].boarded \subseteq Exited
    /\ lastLoad.elevator # 0 =>
          /\ lastLoad.before = <<>>
          /\ Len(lastLoad.after) = Min(capacity, Len(lastLoad.waiting))

\* the only elevator loads its second rider after its first cycle, in which it
\* carried the first rider, has ended
SecondCycleLoad ==
    /\ num_elevators = 1
    /\ exited_riders = <<1>>
    /\ lastLoad.elevator = 1
    /\ lastLoad.after = <<2>>
    /\ 2 \in cycle[1].boarded

\* the requests for floor f whose Load has not been executed: in a request
\* queue, handed to a get that its elevator has not resumed on yet, or being
\* served (the elevator moves to f or waits for the door there)
Pending(f) ==
    LET queued(e) == Cardinality({k \in 1..Len(elevators[e].items) : elevators[e].items[k] = f})
        handed == Cardinality({x \in queue : x.kind = "get" /\ x.val = f})
        served == Cardinality({e \in DOMAIN elevators :
                                  elevators[e].pc \in {"move", "door"} /\ elevators[e].floor = f})
        QueuedIn == [e \in DOMAIN elevators |-> queued(e)]
    IN SetSum(DOMAIN elevators, QueuedIn) + handed + served

\* C20: for every floor f the riders waiting in lobby f are at most the
\* requests for f enqueued and not yet served by a Load.
LobbyCovered ==
    \A f \in 0..(N_floors - 1) : Len(lobby_waiting[f]) <= Pending(f)

\* a rider left behind by a full elevator waits while the visit it requested
\* is still pending in that elevator's request queue
LeftBehindCovered ==
    /\ lastLoad.elevator # 0
    /\ lastLoad.lobby # <<>>
    /\ lobby_waiting[lastLoad.floor] = lastLoad.lobby
    /\ elevators[lastLoad.elevator].passengers # <<>>
    /\ Pending(lastLoad.floor) = 1

====
